---- MODULE Spec2Model ----
(***************************************************************************)
(* Model of scripts/convert_text_to_speech.py: main() validates the        *)
(* environment, probes Polly and S3, then converts each input file with    *)
(* convert_text_to_speech() and finally saves and prints a summary.        *)
(* One run of the process is one behaviour.  The inputs of a run (the      *)
(* environment variables, the file system, the argument list, the voice,   *)
(* what the AWS services answer) are chosen in Init or by \E in the step   *)
(* that consults them.                                                     *)
(***************************************************************************)
EXTENDS Integers, Sequences, FiniteSets, TLC

\* ---------------------------------------------------------------- bounds
\* Longest argument list of a run.
MaxFiles == 2
\* The wall clock is counted in ticks; strftime("%Y%m%d_%H%M%S") keeps whole
\* seconds only.
TicksPerSecond == 2
\* Most ticks one synthesize_speech round trip takes (it takes at least one).
MaxElapsed == 2

\* ---------------------------------------------------------------- inputs
\* os.environ.get(var) of a variable that is not set.
Unset == "<unset>"
EnvValues == {Unset, "", "set"}

\* Paths the arguments are drawn from: two share the base name "x".
Paths ==
    { [dir |-> "texts", base |-> "x", ext |-> ".txt"],
      [dir |-> "more",  base |-> "x", ext |-> ".txt"],
      [dir |-> "texts", base |-> "y", ext |-> ".txt"] }

\* What a path holds: nothing, something open() refuses, or text.
NoFile == "<no file>"
Unreadable == "<unreadable>"
Texts == { <<>>, <<" ">>, <<"H", "i">> }
Contents == [kind : {NoFile, Unreadable}, text : {<<>>}]
              \cup [kind : {"text"}, text : Texts]

Voices == {"Joanna"}

\* A conversion_results.json a prior run left behind.
PriorResults ==
    << [source_file |-> [dir |-> "old", base |-> "old", ext |-> ".txt"],
        audio_file |-> <<"old", "Joanna", 0>>,
        s3_key |-> <<"audio", <<"old", "Joanna", 0>>>>,
        voice_id |-> "Joanna",
        character_count |-> 1,
        audio_size_bytes |-> 1] >>

RECURSIVE SeqsUpTo(_, _)
SeqsUpTo(S, n) ==
    IF n = 0 THEN { <<>> }
    ELSE LET shorter == SeqsUpTo(S, n - 1)
         IN  shorter \cup { Append(s, x) : s \in shorter, x \in S }

\* ----------------------------------------------------------------- state
VARIABLES
    env,          \* os.environ: AWS_REGION, S3_BUCKET
    aws,          \* which preflight probes the services accept
    fs,           \* the file system: path -> content
    file_paths,   \* main's file_paths after argument parsing
    voice_id,     \* main's voice_id
    pc,           \* where the process is
    i,            \* index of the for loop over file_paths (1-based)
    results,      \* main's results list
    result,       \* what convert_text_to_speech returned: None or <<dict>>
    text,         \* convert_text_to_speech's locals
    s3_key,
    exc,          \* the exception on its way to the handler
    now,          \* the wall clock, in ticks
    exit_status,  \* the process's exit status once pc = "exited"
    summary_file, \* conversion_results.json
    writes,       \* how often this run wrote conversion_results.json
    calls,        \* every call to an AWS service, in order
    attempted,    \* the indices convert_text_to_speech was called for
    keys,         \* every s3_key derived at line 56, with its index
    stdout        \* the messages printed that tell outcomes apart

vars == << env, aws, fs, file_paths, voice_id, pc, i, results, result, text,
           s3_key, exc, now, exit_status, summary_file, writes, calls,
           attempted, keys, stdout >>

inputs == << env, aws, fs, file_paths, voice_id >>
locals == << text, s3_key >>

None == <<>>
NoKey == <<>>

Init ==
    /\ env \in [{"AWS_REGION", "S3_BUCKET"} -> EnvValues]
    /\ aws \in [{"describe_voices", "head_bucket"} -> BOOLEAN]
    /\ fs \in [Paths -> Contents]
    /\ file_paths \in SeqsUpTo(Paths, MaxFiles)
    /\ voice_id \in Voices
    /\ pc = "main"
    /\ i = 1
    /\ results = <<>>
    /\ result = None
    /\ text = <<>>
    /\ s3_key = NoKey
    /\ exc = ""
    /\ now = 0
    /\ exit_status = 0
    /\ summary_file \in { [exists |-> FALSE, content |-> <<>>],
                          [exists |-> TRUE, content |-> PriorResults] }
    /\ writes = 0
    /\ calls = <<>>
    /\ attempted = <<>>
    /\ keys = <<>>
    /\ stdout = <<>>

\* --------------------------------------------------------------- helpers
\* print(...): only the lines that tell one outcome from another are kept.
Printed(msg, idx) == Append(stdout, [msg |-> msg, idx |-> idx])

\* sys.exit(code)
Exit(code) ==
    /\ pc' = "exited"
    /\ exit_status' = code

\* `not os.environ.get(var)`: unset and empty are both missing.
Truthy(v) == v \notin {Unset, ""}

\* A check that forgets the bucket.
required_vars_RegionOnly == {"AWS_REGION"}

required_vars == {"AWS_REGION", "S3_BUCKET"}

missing_vars == { var \in required_vars : ~Truthy(env[var]) }

validate_environment == missing_vars = {}

\* A loop that does not look whether the file is there.
Exists_Unchecked(p) == TRUE

\* os.path.exists(file_path)
Exists(p) == fs[p].kind # NoFile

\* os.path.splitext(os.path.basename(file_path))[0]
BaseName(p) == p.base

\* datetime.now().strftime("%Y%m%d_%H%M%S"): the clock cut to whole seconds.
Timestamp(t) == t \div TicksPerSecond

\* f"{base_name}_{voice_id}_{timestamp}.mp3"
AudioFilename(p, v, t) == << BaseName(p), v, Timestamp(t) >>

\* f"audio/{audio_filename}"
S3Key(p, v, t) == << "audio", AudioFilename(p, v, t) >>

\* The names bound when line 61 evaluates put_object's arguments: the
\* parameters and the locals assigned on the way there, and the module's
\* globals.
LocalNames ==
    { "file_path", "voice_id", "polly", "s3", "f", "text", "response",
      "base_name", "timestamp", "audio_filename", "bucket_name", "s3_key",
      "audio_data" }
GlobalNames ==
    { "boto3", "os", "sys", "json", "datetime", "List", "Dict", "Optional",
      "convert_text_to_speech", "validate_environment",
      "validate_aws_permissions", "main" }
Bound(name) == name \in LocalNames \cup GlobalNames

\* The names the arguments of s3.put_object(...) read (lines 61-74).
PutObjectNames ==
    { "s3", "bucket_name", "s3_key", "audio_data", "file_path", "voice_id",
      "datetime", "os", "original_length", "text" }

Call(op, idx, ok) == Append(calls, [op |-> op, idx |-> idx, ok |-> ok])

\* --------------------------------------------------------------- actions
\* main, lines 152-185: no file path left after parsing ends the run.
ParseArgs ==
    /\ pc = "main"
    /\ IF file_paths = <<>>
       THEN /\ Exit(1)
            /\ stdout' = Printed("Usage", 0)
       ELSE /\ pc' = "validate_environment"
            /\ UNCHANGED << exit_status, stdout >>
    /\ UNCHANGED << inputs, locals, i, results, result, exc, now,
                    summary_file, writes, calls, attempted, keys >>

\* main, lines 187-189, and validate_environment, lines 106-124.
ValidateEnvironment ==
    /\ pc = "validate_environment"
    /\ IF ~validate_environment
       THEN /\ Exit(1)
            /\ stdout' = Printed("Missing required environment variables", 0)
       ELSE /\ pc' = "validate_aws_permissions"
            /\ UNCHANGED << exit_status, stdout >>
    /\ UNCHANGED << inputs, locals, i, results, result, exc, now,
                    summary_file, writes, calls, attempted, keys >>

\* main, lines 191-193, and validate_aws_permissions, lines 127-145: any
\* exception of the two probes, or of reading the two variables, ends the
\* run with status 1.
ValidateAwsPermissions ==
    /\ pc = "validate_aws_permissions"
    /\ IF env["AWS_REGION"] = Unset
       THEN /\ Exit(1)
            /\ stdout' = Printed("AWS permission error", 0)
            /\ UNCHANGED calls
       ELSE IF ~aws["describe_voices"]
       THEN /\ Exit(1)
            /\ stdout' = Printed("AWS permission error", 0)
            /\ calls' = Call("describe_voices", 0, FALSE)
       ELSE IF env["S3_BUCKET"] = Unset
       THEN /\ Exit(1)
            /\ stdout' = Printed("AWS permission error", 0)
            /\ calls' = Call("describe_voices", 0, TRUE)
       ELSE IF ~aws["head_bucket"]
       THEN /\ Exit(1)
            /\ stdout' = Printed("AWS permission error", 0)
            /\ calls' = calls \o << [op |-> "describe_voices", idx |-> 0, ok |-> TRUE],
                                    [op |-> "head_bucket", idx |-> 0, ok |-> FALSE] >>
       ELSE /\ pc' = "for"
            /\ calls' = calls \o << [op |-> "describe_voices", idx |-> 0, ok |-> TRUE],
                                    [op |-> "head_bucket", idx |-> 0, ok |-> TRUE] >>
            /\ UNCHANGED << exit_status, stdout >>
    /\ UNCHANGED << inputs, locals, i, results, result, exc, now,
                    summary_file, writes, attempted, keys >>

\* main, lines 197-199 and 205-206: a path that does not exist is reported
\* and passed over.
FileNotFound ==
    /\ pc = "for"
    /\ i <= Len(file_paths)
    /\ ~Exists(file_paths[i])
    /\ stdout' = Printed("File not found", i)
    /\ i' = i + 1
    /\ UNCHANGED << inputs, locals, pc, results, result, exc, now,
                    exit_status, summary_file, writes, calls, attempted, keys >>

\* main, lines 197-201, and convert_text_to_speech, lines 26-28: the call,
\* and the two clients, built from the arguments the preflight built its
\* clients from.
CallConvert ==
    /\ pc = "for"
    /\ i <= Len(file_paths)
    /\ Exists(file_paths[i])
    /\ attempted' = Append(attempted, i)
    /\ pc' = "read"
    /\ UNCHANGED << inputs, locals, i, results, result, exc, now,
                    exit_status, summary_file, writes, calls, keys, stdout >>

\* convert_text_to_speech, lines 30-40.
ReadFile ==
    /\ pc = "read"
    /\ LET content == fs[file_paths[i]]
       IN  IF content.kind # "text"
           THEN /\ exc' = "OSError"
                /\ pc' = "except"
                /\ UNCHANGED << text, result, stdout >>
           ELSE IF Len(content.text) = 0
           THEN /\ stdout' = Printed("is empty, skipping", i)
                /\ result' = None
                /\ pc' = "returned"
                /\ UNCHANGED << text, exc >>
           ELSE /\ text' = content.text
                /\ pc' = "synthesize"
                /\ UNCHANGED << result, exc, stdout >>
    /\ UNCHANGED << inputs, s3_key, i, results, now, exit_status,
                    summary_file, writes, calls, attempted, keys >>

\* convert_text_to_speech, lines 42-47: the round trip takes time, and the
\* service answers or raises.
SynthesizeSpeech ==
    /\ pc = "synthesize"
    /\ \E ok \in BOOLEAN, elapsed \in 1..MaxElapsed :
        /\ now' = now + elapsed
        /\ calls' = Call("synthesize_speech", i, ok)
        /\ IF ok
           THEN /\ pc' = "derive_key"
                /\ UNCHANGED exc
           ELSE /\ pc' = "except"
                /\ exc' = "ClientError"
    /\ UNCHANGED << inputs, locals, i, results, result, exit_status,
                    summary_file, writes, attempted, keys, stdout >>

\* convert_text_to_speech, lines 49-56.
DeriveKey ==
    /\ pc = "derive_key"
    /\ IF env["S3_BUCKET"] = Unset
       THEN /\ exc' = "KeyError"
            /\ pc' = "except"
            /\ UNCHANGED << s3_key, keys >>
       ELSE /\ s3_key' = S3Key(file_paths[i], voice_id, now)
            /\ keys' = Append(keys, [idx |-> i,
                                     s3_key |-> S3Key(file_paths[i], voice_id, now)])
            /\ pc' = "read_audio"
            /\ UNCHANGED exc
    /\ UNCHANGED << inputs, text, i, results, result, now, exit_status,
                    summary_file, writes, calls, attempted, stdout >>

\* convert_text_to_speech, lines 58-59: reading the stream may fail too.
ReadAudioStream ==
    /\ pc = "read_audio"
    /\ \E ok \in BOOLEAN :
        /\ calls' = Call("AudioStream.read", i, ok)
        /\ IF ok
           THEN /\ pc' = "put_object"
                /\ UNCHANGED exc
           ELSE /\ pc' = "except"
                /\ exc' = "ReadError"
    /\ UNCHANGED << inputs, locals, i, results, result, now, exit_status,
                    summary_file, writes, attempted, keys, stdout >>

\* convert_text_to_speech, lines 85-95.
ResultDict ==
    [ source_file |-> file_paths[i],
      audio_file |-> s3_key[2],
      s3_key |-> s3_key,
      voice_id |-> voice_id,
      character_count |-> Len(text),
      audio_size_bytes |-> 1 ]

\* convert_text_to_speech, lines 61-95: the arguments of put_object are
\* evaluated first, and a name that is not bound raises NameError before
\* anything is sent.
PutObject ==
    /\ pc = "put_object"
    /\ IF \A name \in PutObjectNames : Bound(name)
       THEN \E ok \in BOOLEAN :
              /\ calls' = Call("put_object", i, ok)
              /\ IF ok
                 THEN /\ result' = << ResultDict >>
                      /\ pc' = "returned"
                      /\ stdout' = Printed("Successfully converted", i)
                      /\ UNCHANGED exc
                 ELSE /\ exc' = "ClientError"
                      /\ pc' = "except"
                      /\ UNCHANGED << result, stdout >>
       ELSE /\ exc' = "NameError"
            /\ pc' = "except"
            /\ UNCHANGED << calls, result, stdout >>
    /\ UNCHANGED << inputs, locals, i, results, now, exit_status,
                    summary_file, writes, attempted, keys >>

\* A handler that prints the error and raises it again: the exception
\* leaves main and the interpreter ends with status 1.
HandleException_Reraise ==
    /\ pc = "except"
    /\ stdout' = Printed("Error converting", i)
    /\ Exit(1)
    /\ UNCHANGED << inputs, locals, i, results, result, exc, now,
                    summary_file, writes, calls, attempted, keys >>

\* convert_text_to_speech, lines 97-103: every Exception is printed and
\* turned into None.
HandleException ==
    /\ pc = "except"
    /\ stdout' = Printed("Error converting", i)
    /\ result' = None
    /\ exc' = ""
    /\ pc' = "returned"
    /\ UNCHANGED << inputs, locals, i, results, now, exit_status,
                    summary_file, writes, calls, attempted, keys >>

\* main, lines 201-204: a result that is not None joins results.
ReturnToMain ==
    /\ pc = "returned"
    /\ results' = IF result # None THEN results \o result ELSE results
    /\ result' = None
    /\ text' = <<>>
    /\ s3_key' = NoKey
    /\ i' = i + 1
    /\ pc' = "for"
    /\ UNCHANGED << inputs, exc, now, exit_status, summary_file, writes,
                    calls, attempted, keys, stdout >>

\* main, lines 208-225: the file is written only when results is not
\* empty; the summary, with "Results saved to", is printed either way, and
\* main returns.
SaveResults ==
    /\ pc = "for"
    /\ i > Len(file_paths)
    /\ IF results # <<>>
       THEN /\ summary_file' = [exists |-> TRUE, content |-> results]
            /\ writes' = writes + 1
       ELSE UNCHANGED << summary_file, writes >>
    /\ stdout' = Printed("Results saved to: conversion_results.json", Len(results))
    /\ Exit(0)
    /\ UNCHANGED << inputs, locals, i, results, result, exc, now, calls,
                    attempted, keys >>

Next ==
    \/ ParseArgs
    \/ ValidateEnvironment
    \/ ValidateAwsPermissions
    \/ FileNotFound
    \/ CallConvert
    \/ ReadFile
    \/ SynthesizeSpeech
    \/ DeriveKey
    \/ ReadAudioStream
    \/ PutObject
    \/ HandleException
    \/ ReturnToMain
    \/ SaveResults

Spec == Init /\ [][Next]_vars

\* ---------------------------------------------------------------- claims
N == Len(file_paths)
Done == pc = "exited"
\* main ran its loop to the end and returned.
Completed == pc = "exited" /\ exit_status = 0
Range(seq) == { seq[n] : n \in 1..Len(seq) }
Said(msg, idx) == [msg |-> msg, idx |-> idx] \in Range(stdout)
\* The requests main is through with.
Processed == { j \in 1..N : j < i }
CallsFor(j) == { c \in Range(calls) : c.idx = j }
Called(op, j, ok) == [op |-> op, idx |-> j, ok |-> ok] \in Range(calls)
RecordedFor(j) == \E n \in 1..Len(results) : results[n].source_file = file_paths[j]
InSummary(j) ==
    /\ summary_file.exists
    /\ \E n \in 1..Len(summary_file.content) :
          summary_file.content[n].source_file = file_paths[j]
IsMissing(j) == fs[file_paths[j]].kind = NoFile
\* The configuration as the environment has it, whatever the code checks.
ConfigPresent == \A var \in {"AWS_REGION", "S3_BUCKET"} : env[var] \notin {Unset, ""}
PreflightPassed == aws["describe_voices"] /\ aws["head_bucket"]
\* Request j met no failure of a collaborator: the text was synthesized and
\* the audio read, and the store refused no put.
HappyPath(j) ==
    /\ Called("synthesize_speech", j, TRUE)
    /\ Called("AudioStream.read", j, TRUE)
    /\ ~Called("put_object", j, FALSE)

IsSpace(ch) == ch \in {" ", "\t"}
RECURSIVE LStrip(_)
LStrip(t) == IF t # <<>> /\ IsSpace(Head(t)) THEN LStrip(Tail(t)) ELSE t
RECURSIVE RStrip(_)
RStrip(t) ==
    IF t # <<>> /\ IsSpace(t[Len(t)]) THEN RStrip(SubSeq(t, 1, Len(t) - 1)) ELSE t
\* str.strip()
Strip(t) == RStrip(LStrip(t))

\* C1: failure isolation. When synthesis failed for request k of a run that
\* passed the configuration and preflight checks, every other request whose
\* file exists was still attempted, in input order, and the result of every
\* other request that met no failure is in the summary.
C1_FailureIsolation ==
    Completed =>
        \A k \in 1..N :
            Called("synthesize_speech", k, FALSE) =>
                /\ \A m, n \in 1..Len(attempted) : m < n => attempted[m] < attempted[n]
                /\ \A j \in (1..N) \ {k} :
                      ~IsMissing(j) =>
                          /\ j \in Range(attempted)
                          /\ HappyPath(j) => InSummary(j)

\* C2: exit signalling. The process ends with status zero if and only if the
\* configuration was valid, the run completed and at least one request
\* reached Success.
C2_ExitSignalling ==
    Done => (exit_status = 0 <=> (ConfigPresent /\ i > N /\ Len(results) >= 1))

\* C3: Success is reachable on the happy path. A request whose file holds
\* text, whose synthesis returned an audio stream and whose put the store
\* did not refuse, was put and has its result in main's results.
C3_SuccessOnHappyPath ==
    Completed =>
        \A j \in 1..N :
            HappyPath(j) => Called("put_object", j, TRUE) /\ RecordedFor(j)

\* C4: configuration fail-fast. With S3_BUCKET or AWS_REGION unset or empty
\* the run never reaches the preflight check or the loop, calls no service,
\* writes no summary, and ends with status 1 on the configuration error.
C4_ConfigFailFast ==
    ~ConfigPresent =>
        /\ pc \in {"main", "validate_environment", "exited"}
        /\ calls = <<>>
        /\ attempted = <<>>
        /\ writes = 0
        /\ Done =>
              /\ exit_status = 1
              /\ file_paths # <<>> => Said("Missing required environment variables", 0)

C4_Witness ==
    /\ Done
    /\ ~ConfigPresent
    /\ file_paths # <<>>
    /\ exit_status = 1
    /\ Said("Missing required environment variables", 0)

C6_SummaryWrittenOnce ==
    Completed =>
        /\ writes = 1
        /\ summary_file = [exists |-> TRUE, content |-> results]

\* C7: summary completeness. At the end of a run every input request has
\* contributed exactly one result to the summary, in input order.
C7_SummaryComplete ==
    Completed =>
        /\ Len(results) = N
        /\ \A n \in 1..Len(results) : n <= N => results[n].source_file = file_paths[n]

C9_BlankSkipped ==
    \A j \in Processed :
        LET content == fs[file_paths[j]]
        IN  (content.kind = "text" /\ Strip(content.text) = <<>>) =>
                /\ Said("is empty, skipping", j)
                /\ CallsFor(j) = {}

====
